---- MODULE Spec2Model ----
(***************************************************************************)
(* A model of seed_pitcher/browsers/simular.py: the SimularBrowser         *)
(* session, its constructor and its delegating operations, called by two   *)
(* host threads against one driver.  The driver, its element handles, the  *)
(* page and the selenium poll helper are the environment: every driver     *)
(* command is issued in one step and answered in a later one, and may      *)
(* return or raise.                                                        *)
(***************************************************************************)
EXTENDS Integers, Sequences, FiniteSets, TLC

(* ------------------------------ bounds -------------------------------- *)

\* close() may be called at most this many times in a run.
MaxCloses == 2

\* The largest timeout handed to wait_for_element, in poll intervals.
MaxTimeout == 1

(* ------------------------- program constants -------------------------- *)

ImplicitWaitSecs == 10
NavigateSleepMs == 2000
ClickSleepMs == 1000
ScrollSleepMs == 500
ScrollDefault == 500

(* ------------------------------ universe ------------------------------ *)

Threads == {"t1", "t2"}

\* Python's None, and a field that was never assigned.
Null == "None"

\* The handles Simular().driver may be.
DriverHandles == {"drvA", "drvB"}

\* The element handle the page yields when the selector matches.
Elem == "e1"

\* The values of `by` a caller may pass.
Bys == {"css", "xpath", "id"}

Timeouts == 0 .. MaxTimeout

\* An exception: its class and its message.
Exc(type, msg) == [type |-> type, msg |-> msg]
NoExc == Exc("", "")

\* What a driver or element command may raise on its own account.
DriverErrors == {Exc("WebDriverException", "driver fault")}

NoSuchElement == Exc("NoSuchElementException", "no such element")
TimeoutExc == Exc("TimeoutException", "")

\* What `from simular import Simular` raises when the package is absent.
SimularAbsent == Exc("ImportError", "No module named 'simular'")

\* What line 23 may raise: the package is absent, or it is installed and a
\* module it imports in turn is not.
ImportFailures == {SimularAbsent,
                   Exc("ImportError", "No module named 'selenium'")}

\* What the calls inside the constructor's with-block may raise: a driver
\* fault, or an ImportError of the dependency's own (a module it loads late).
CtorErrors == {Exc("WebDriverException", "driver fault"),
               Exc("ImportError", "No module named 'selenium'")}

\* What the imports of wait_for_element raise when selenium is absent.
SeleniumAbsent == Exc("ImportError", "No module named 'selenium'")

\* except ImportError matches these classes.
IsImportError(e) == e.type = "ImportError"

\* A command sent to the driver or to an element handle, or a sleep.
Cmd(c, a, n) == [cmd |-> c, arg |-> a, n |-> n]
Sleep(ms) == Cmd("sleep", "", ms)

\* How an operation, or a driver command, ended.
Returned(v) == [kind |-> "return", val |-> v, exc |-> NoExc]
Raised(e) == [kind |-> "raise", val |-> Null, exc |-> e]
Pending == [kind |-> "none", val |-> Null, exc |-> NoExc]

\* The locals of a call that is not running.
NoFrame == [op |-> "", by |-> "", byMethod |-> "", timeout |-> 0,
            elapsed |-> 0, appeared |-> FALSE, exc |-> NoExc]

VARIABLES
    pc,           \* pc[t]: where thread t stands in the method it runs
    frame,        \* frame[t]: the method, its arguments and its locals
    calls,        \* calls[t]: the commands the running method has issued
    outcome,      \* outcome[t]: how the method ended
    last,         \* last[t]: how the driver answered t's last command
    lock,         \* self._lock: its owner and its recursion count
    status,       \* "unborn" | "constructing" | "ready" | "failed"
    browser,      \* self.browser
    driver,       \* self.driver
    implicitWait, \* the driver's implicit wait, seconds
    created,      \* the handle Simular() made for this session
    quits,        \* quit commands the driver has received
    closeCalls,   \* calls of close() made
    present       \* whether the page holds an element matching the selector

vars == <<pc, frame, calls, outcome, last, lock, status, browser, driver,
          implicitWait, created, quits, closeCalls, present>>

session == <<lock, status, browser, driver, implicitWait, created>>

FreeLock == [owner |-> Null, count |-> 0]

Init ==
    /\ pc = [t \in Threads |-> "idle"]
    /\ frame = [t \in Threads |-> NoFrame]
    /\ calls = [t \in Threads |-> <<>>]
    /\ outcome = [t \in Threads |-> Pending]
    /\ last = [t \in Threads |-> Pending]
    /\ lock = FreeLock
    /\ status = "unborn"
    /\ browser = Null
    /\ driver = Null
    /\ implicitWait = 0
    /\ created = Null
    /\ quits = 0
    /\ closeCalls = 0
    /\ present \in BOOLEAN

(* ------------------------------ helpers ------------------------------- *)

Goto(t, p) == pc' = [pc EXCEPT ![t] = p]

\* The method returns or raises to its caller.
Finish(t, out) ==
    /\ outcome' = [outcome EXCEPT ![t] = out]
    /\ Goto(t, "done")

\* The method sends command c and waits for the answer at p.
Issue(t, c, p) ==
    /\ calls' = [calls EXCEPT ![t] = Append(@, c)]
    /\ Goto(t, p)

\* A call of method m begins.
Enter(t, m) == [NoFrame EXCEPT !.op = m]

\* RLock.acquire and RLock.release.
CanAcquire(t) == lock.owner \in {Null, t}
Acquired(t) == [owner |-> t, count |-> lock.count + 1]
Released == IF lock.count = 1 THEN FreeLock
                              ELSE [lock EXCEPT !.count = @ - 1]

\* A thread holding a reference to a constructed session, free to call it.
CanCall(t) == pc[t] = "idle" /\ status = "ready"

\* The answers of a command that yields the value v.
Answers(v) == {Returned(v)} \cup {Raised(e) : e \in DriverErrors}

\* What a pass-through method does with the driver's answer r.
PassThrough(t, r) ==
    /\ last' = [last EXCEPT ![t] = r]
    /\ Finish(t, r)

\* A method that goes on after its command raised.
ProceedSwallow(t, p) ==
    /\ \E r \in Answers(Null) : last' = [last EXCEPT ![t] = r]
    /\ Goto(t, p)
    /\ UNCHANGED outcome

\* The answer to a command whose value is not used: on to p, or the raise
\* leaves the method.
Proceed(t, p) ==
    \/ /\ last' = [last EXCEPT ![t] = Returned(Null)]
       /\ Goto(t, p)
       /\ UNCHANGED outcome
    \/ \E e \in DriverErrors :
         /\ last' = [last EXCEPT ![t] = Raised(e)]
         /\ Finish(t, Raised(e))

(* ---------------------------- __init__ -------------------------------- *)

\* SimularBrowser(): a new object; line 20 gives it a lock of its own.
Construct(t) ==
    /\ pc[t] = "idle"
    /\ status \in {"unborn", "failed"}
    /\ status' = "constructing"
    /\ lock' = FreeLock
    /\ browser' = Null
    /\ driver' = Null
    /\ created' = Null
    /\ implicitWait' = 0
    /\ frame' = [frame EXCEPT ![t] = Enter(t, "__init__")]
    /\ Goto(t, "init_import")
    /\ UNCHANGED <<calls, outcome, last, quits, closeCalls, present>>

\* Line 23: from simular import Simular.
InitImport(t) ==
    /\ pc[t] = "init_import"
    /\ \/ /\ Goto(t, "init_acquire")
          /\ UNCHANGED frame
       \/ \E e \in ImportFailures :
            /\ frame' = [frame EXCEPT ![t].exc = e]
            /\ Goto(t, "init_except")
    /\ UNCHANGED <<calls, outcome, last, session, quits, closeCalls, present>>

\* Line 25: with self._lock.
InitAcquire(t) ==
    /\ pc[t] = "init_acquire"
    /\ CanAcquire(t)
    /\ lock' = Acquired(t)
    /\ Goto(t, "init_simular")
    /\ UNCHANGED <<frame, calls, outcome, last, status, browser, driver,
                   implicitWait, created, quits, closeCalls, present>>

\* Line 26: self.browser = Simular(); a raise leaves the with-block.
InitSimular(t) ==
    /\ pc[t] = "init_simular"
    /\ \/ \E d \in DriverHandles :
            /\ browser' = d
            /\ created' = d
            /\ Issue(t, Cmd("Simular", "", 0), "init_driver")
            /\ UNCHANGED <<frame, lock>>
       \/ \E e \in CtorErrors :
            /\ frame' = [frame EXCEPT ![t].exc = e]
            /\ lock' = Released
            /\ Issue(t, Cmd("Simular", "", 0), "init_except")
            /\ UNCHANGED <<browser, created>>
    /\ UNCHANGED <<outcome, last, status, driver, implicitWait, quits,
                   closeCalls, present>>

\* Line 27: self.driver = self.browser.driver.
InitDriver(t) ==
    /\ pc[t] = "init_driver"
    /\ driver' = browser
    /\ Goto(t, "init_wait")
    /\ UNCHANGED <<frame, calls, outcome, last, lock, status, browser,
                   implicitWait, created, quits, closeCalls, present>>

\* A constructor that keeps the lock after its with-block.
InitImplicitWaitLeak(t) ==
    /\ pc[t] = "init_wait"
    /\ implicitWait' = ImplicitWaitSecs
    /\ Issue(t, Cmd("implicitly_wait", "", ImplicitWaitSecs), "init_done")
    /\ UNCHANGED <<frame, lock, outcome, last, status, browser, driver,
                   created, quits, closeCalls, present>>

\* Line 29: self.driver.implicitly_wait(10), then the with-block ends.
InitImplicitWait(t) ==
    /\ pc[t] = "init_wait"
    /\ lock' = Released
    /\ \/ /\ implicitWait' = ImplicitWaitSecs
          /\ Issue(t, Cmd("implicitly_wait", "", ImplicitWaitSecs), "init_done")
          /\ UNCHANGED frame
       \/ \E e \in CtorErrors :
            /\ frame' = [frame EXCEPT ![t].exc = e]
            /\ Issue(t, Cmd("implicitly_wait", "", ImplicitWaitSecs), "init_except")
            /\ UNCHANGED implicitWait
    /\ UNCHANGED <<outcome, last, status, browser, driver, created, quits,
                   closeCalls, present>>

\* Lines 31-36: what except ImportError raises in place of what it caught.
NotInstalled ==
    Exc("ImportError",
        "The simular package is not installed. Please install it with: pip install pysimular")

\* Lines 31-39: the two except clauses.
InitExcept(t) ==
    /\ pc[t] = "init_except"
    /\ status' = "failed"
    /\ last' = [last EXCEPT ![t] = Raised(frame[t].exc)]
    /\ IF IsImportError(frame[t].exc)
          THEN Finish(t, Raised(NotInstalled))
          ELSE Finish(t, Raised(frame[t].exc))
    /\ UNCHANGED <<frame, calls, lock, browser, driver, implicitWait, created,
                   quits, closeCalls, present>>

\* Line 30: the constructor returns and the caller holds the session.
InitDone(t) ==
    /\ pc[t] = "init_done"
    /\ status' = "ready"
    /\ Finish(t, Returned(Null))
    /\ UNCHANGED <<frame, calls, last, lock, browser, driver, implicitWait,
                   created, quits, closeCalls, present>>

(* ----------------------------- navigate ------------------------------- *)

\* Line 43: self.driver.get(url) is sent.
Navigate(t) ==
    /\ CanCall(t)
    /\ frame' = [frame EXCEPT ![t] = Enter(t, "navigate")]
    /\ Issue(t, Cmd("get", "http://example.com", 0), "nav_in_get")
    /\ UNCHANGED <<outcome, last, session, quits, closeCalls, present>>

\* Line 43: the driver answers; a raise leaves navigate.
NavigateGetReturn(t) ==
    /\ pc[t] = "nav_in_get"
    /\ Proceed(t, "nav_sleep")
    /\ UNCHANGED <<frame, calls, session, quits, closeCalls, present>>

\* A navigate that returns without its pause.
NavigateNoSleep(t) ==
    /\ pc[t] = "nav_sleep"
    /\ Finish(t, Returned(Null))
    /\ UNCHANGED <<frame, calls, last, session, quits, closeCalls, present>>

\* Line 44: time.sleep(2), then navigate returns.
NavigateSleep(t) ==
    /\ pc[t] = "nav_sleep"
    /\ calls' = [calls EXCEPT ![t] = Append(@, Sleep(NavigateSleepMs))]
    /\ Finish(t, Returned(Null))
    /\ UNCHANGED <<frame, last, session, quits, closeCalls, present>>

(* -------------------------- get_page_source --------------------------- *)

\* Line 48: self.driver.page_source is read.
GetPageSource(t) ==
    /\ CanCall(t)
    /\ frame' = [frame EXCEPT ![t] = Enter(t, "get_page_source")]
    /\ Issue(t, Cmd("page_source", "", 0), "src_in")
    /\ UNCHANGED <<outcome, last, session, quits, closeCalls, present>>

\* The document the driver holds.
PageSource == IF present THEN "<html><a/></html>" ELSE "<html></html>"

GetPageSourceReturn(t) ==
    /\ pc[t] = "src_in"
    /\ \E r \in Answers(PageSource) : PassThrough(t, r)
    /\ UNCHANGED <<frame, calls, session, quits, closeCalls, present>>

(* -------------------- find_element, find_elements --------------------- *)

\* A lookup that takes every unknown `by` for a CSS selector.
LookupOfLenient(m, by) ==
    IF by = "xpath" THEN m \o "_by_xpath" ELSE m \o "_by_css_selector"

\* Lines 52-57 and 61-66: the driver method for `by`, none when unsupported.
LookupOf(m, by) ==
    IF by = "css" THEN m \o "_by_css_selector"
    ELSE IF by = "xpath" THEN m \o "_by_xpath"
    ELSE ""

\* Lines 57 and 66.
Unsupported(by) == Exc("ValueError", "Unsupported selector type: " \o by)

\* Lines 50-57 and 59-66 up to the driver's answer: the lookup is sent, or
\* ValueError is raised.
Find(t, m, by) ==
    /\ CanCall(t)
    /\ frame' = [frame EXCEPT ![t] = [Enter(t, m) EXCEPT !.by = by]]
    /\ IF LookupOf(m, by) # ""
          THEN /\ Issue(t, Cmd(LookupOf(m, by), "sel", 0), "find_in")
               /\ UNCHANGED outcome
          ELSE /\ Finish(t, Raised(Unsupported(by)))
               /\ UNCHANGED calls
    /\ UNCHANGED <<last, session, quits, closeCalls, present>>

FindElement(t) == \E by \in Bys : Find(t, "find_element", by)

FindElements(t) == \E by \in Bys : Find(t, "find_elements", by)

\* The driver's answers to a lookup of one element and of all elements.
LookupAnswers(m) ==
    IF m = "find_element"
       THEN (IF present THEN {Returned(Elem)} ELSE {Raised(NoSuchElement)})
            \cup {Raised(e) : e \in DriverErrors}
       ELSE Answers(IF present THEN <<Elem>> ELSE <<>>)

\* Lines 53, 55, 62, 64: return what the driver answers.
FindReturn(t) ==
    /\ pc[t] = "find_in"
    /\ \E r \in LookupAnswers(frame[t].op) : PassThrough(t, r)
    /\ UNCHANGED <<frame, calls, session, quits, closeCalls, present>>

(* ------------------------------- click -------------------------------- *)

\* Line 70: element.click() is sent.
Click(t) ==
    /\ CanCall(t)
    /\ frame' = [frame EXCEPT ![t] = Enter(t, "click")]
    /\ Issue(t, Cmd("click", Elem, 0), "click_in")
    /\ UNCHANGED <<outcome, last, session, quits, closeCalls, present>>

ClickReturn(t) ==
    /\ pc[t] = "click_in"
    /\ Proceed(t, "click_sleep")
    /\ UNCHANGED <<frame, calls, session, quits, closeCalls, present>>

\* Line 71: time.sleep(1), then click returns.
ClickSleep(t) ==
    /\ pc[t] = "click_sleep"
    /\ calls' = [calls EXCEPT ![t] = Append(@, Sleep(ClickSleepMs))]
    /\ Finish(t, Returned(Null))
    /\ UNCHANGED <<frame, last, session, quits, closeCalls, present>>

(* ------------------------------ type_text ----------------------------- *)

\* Line 75: element.clear() is sent.
TypeText(t) ==
    /\ CanCall(t)
    /\ frame' = [frame EXCEPT ![t] = Enter(t, "type_text")]
    /\ Issue(t, Cmd("clear", Elem, 0), "type_in_clear")
    /\ UNCHANGED <<outcome, last, session, quits, closeCalls, present>>

TypeTextClearReturn(t) ==
    /\ pc[t] = "type_in_clear"
    /\ Proceed(t, "type_send")
    /\ UNCHANGED <<frame, calls, session, quits, closeCalls, present>>

\* Line 76: element.send_keys(text) is sent.
TypeTextSendKeys(t) ==
    /\ pc[t] = "type_send"
    /\ Issue(t, Cmd("send_keys", "text", 0), "type_in_send")
    /\ UNCHANGED <<frame, outcome, last, session, quits, closeCalls, present>>

TypeTextSendKeysReturn(t) ==
    /\ pc[t] = "type_in_send"
    /\ \E r \in Answers(Null) : PassThrough(t, r)
    /\ UNCHANGED <<frame, calls, session, quits, closeCalls, present>>

(* ----------------------- get_text, get_attribute ---------------------- *)

\* Line 80: element.text is read.
GetText(t) ==
    /\ CanCall(t)
    /\ frame' = [frame EXCEPT ![t] = Enter(t, "get_text")]
    /\ Issue(t, Cmd("text", Elem, 0), "text_in")
    /\ UNCHANGED <<outcome, last, session, quits, closeCalls, present>>

GetTextReturn(t) ==
    /\ pc[t] = "text_in"
    /\ \E r \in Answers("some text") : PassThrough(t, r)
    /\ UNCHANGED <<frame, calls, session, quits, closeCalls, present>>

\* Line 84: element.get_attribute(attribute) is sent.
GetAttribute(t) ==
    /\ CanCall(t)
    /\ frame' = [frame EXCEPT ![t] = Enter(t, "get_attribute")]
    /\ Issue(t, Cmd("get_attribute", "href", 0), "attr_in")
    /\ UNCHANGED <<outcome, last, session, quits, closeCalls, present>>

GetAttributeReturn(t) ==
    /\ pc[t] = "attr_in"
    /\ \E r \in Answers("some value") : PassThrough(t, r)
    /\ UNCHANGED <<frame, calls, session, quits, closeCalls, present>>

(* ------------------------------- scroll ------------------------------- *)

\* Line 88: the script that scrolls by `amount`.
ScrollScript(amount) == Cmd("execute_script", "window.scrollBy(0, {amount})", amount)

\* Line 88: self.driver.execute_script(...) is sent.
Scroll(t) ==
    /\ CanCall(t)
    /\ frame' = [frame EXCEPT ![t] = Enter(t, "scroll")]
    /\ Issue(t, ScrollScript(ScrollDefault), "scroll_in")
    /\ UNCHANGED <<outcome, last, session, quits, closeCalls, present>>

ScrollReturn(t) ==
    /\ pc[t] = "scroll_in"
    /\ Proceed(t, "scroll_sleep")
    /\ UNCHANGED <<frame, calls, session, quits, closeCalls, present>>

\* Line 89: time.sleep(0.5), then scroll returns.
ScrollSleep(t) ==
    /\ pc[t] = "scroll_sleep"
    /\ calls' = [calls EXCEPT ![t] = Append(@, Sleep(ScrollSleepMs))]
    /\ Finish(t, Returned(Null))
    /\ UNCHANGED <<frame, last, session, quits, closeCalls, present>>

(* ------------------------------- close -------------------------------- *)

\* A close() that sends quit only the first time.
CloseGuarded(t) ==
    /\ CanCall(t)
    /\ closeCalls < MaxCloses
    /\ closeCalls' = closeCalls + 1
    /\ quits' = IF quits > 0 THEN quits ELSE quits + 1
    /\ frame' = [frame EXCEPT ![t] = Enter(t, "close")]
    /\ IF quits > 0
          THEN Finish(t, Returned(Null)) /\ UNCHANGED calls
          ELSE Issue(t, Cmd("quit", "", 0), "close_in") /\ UNCHANGED outcome
    /\ UNCHANGED <<last, session, present>>

\* Line 111: self.driver.quit() is sent, whatever was sent before.
Close(t) ==
    /\ CanCall(t)
    /\ closeCalls < MaxCloses
    /\ closeCalls' = closeCalls + 1
    /\ quits' = quits + 1
    /\ frame' = [frame EXCEPT ![t] = Enter(t, "close")]
    /\ Issue(t, Cmd("quit", "", 0), "close_in")
    /\ UNCHANGED <<outcome, last, session, present>>

\* A close() that drops the handle once quit has answered.
CloseReturnClears(t) ==
    /\ pc[t] = "close_in"
    /\ driver' = Null
    /\ \E r \in Answers(Null) : PassThrough(t, r)
    /\ UNCHANGED <<frame, calls, lock, status, browser, implicitWait, created,
                   quits, closeCalls, present>>

\* Line 111: close() ends the way quit did.
CloseReturn(t) ==
    /\ pc[t] = "close_in"
    /\ \E r \in Answers(Null) : PassThrough(t, r)
    /\ UNCHANGED <<frame, calls, session, quits, closeCalls, present>>

(* -------------------------- wait_for_element -------------------------- *)

\* A by_method that hands an unknown `by` on as it is.
ByMethodAsGiven(by) ==
    IF by = "css" THEN "css selector" ELSE IF by = "xpath" THEN "xpath" ELSE by

\* Line 99.
ByMethod(by) == IF by = "css" THEN "css selector" ELSE "xpath"

\* Lines 91-99: wait_for_element(selector, by, timeout) is called; its
\* imports, which stand before the try, succeed or raise; then by_method.
WaitForElement(t) ==
    /\ CanCall(t)
    /\ \E by \in Bys, timeout \in Timeouts :
         \/ /\ frame' = [frame EXCEPT ![t] =
                           [Enter(t, "wait_for_element") EXCEPT
                              !.by = by, !.timeout = timeout,
                              !.byMethod = ByMethod(by),
                              !.appeared = present]]
            /\ Goto(t, "wait_poll")
            /\ UNCHANGED outcome
         \/ /\ frame' = [frame EXCEPT ![t] =
                           [Enter(t, "wait_for_element") EXCEPT
                              !.by = by, !.timeout = timeout,
                              !.appeared = present]]
            /\ Finish(t, Raised(SeleniumAbsent))
    /\ UNCHANGED <<calls, last, session, quits, closeCalls, present>>

\* Lines 102-104: until() asks the driver for the element.
WaitPoll(t) ==
    /\ pc[t] = "wait_poll"
    /\ Issue(t, Cmd("find_element", frame[t].byMethod, 0), "wait_in_find")
    /\ UNCHANGED <<frame, outcome, last, session, quits, closeCalls, present>>

\* A wait_for_element without its except clause.
WaitResultPropagate(r) == r

\* Lines 101-107: what wait_for_element makes of the way until() ended.
WaitResult(r) == IF r.kind = "return" THEN Returned(r.val) ELSE Returned(Null)

\* A poll that gives up at the first miss.
WaitPollReturnNoRetry(t) ==
    /\ pc[t] = "wait_in_find"
    /\ \E r \in LookupAnswers("find_element") :
         /\ last' = [last EXCEPT ![t] = r]
         /\ Finish(t, IF r.kind = "return" THEN Returned(r.val)
                                           ELSE Returned(Null))
    /\ UNCHANGED <<frame, calls, session, quits, closeCalls, present>>

\* Lines 102-107: the driver answers the poll. An element ends until(); its
\* absence is ignored by until(), which sleeps; any other raise leaves
\* until() and is caught by the bare except.
WaitPollReturn(t) ==
    /\ pc[t] = "wait_in_find"
    /\ \E r \in LookupAnswers("find_element") :
         /\ last' = [last EXCEPT ![t] = r]
         /\ IF r = Raised(NoSuchElement)
               THEN Goto(t, "wait_sleep") /\ UNCHANGED outcome
               ELSE Finish(t, WaitResult(r))
    /\ UNCHANGED <<frame, calls, session, quits, closeCalls, present>>

\* Lines 102-107: until() sleeps one poll interval; past the timeout it
\* raises TimeoutException, which the bare except catches.
WaitSleep(t) ==
    /\ pc[t] = "wait_sleep"
    /\ frame' = [frame EXCEPT ![t].elapsed = @ + 1]
    /\ IF frame[t].elapsed + 1 > frame[t].timeout
          THEN /\ last' = [last EXCEPT ![t] = Raised(TimeoutExc)]
               /\ Finish(t, WaitResult(Raised(TimeoutExc)))
          ELSE /\ Goto(t, "wait_poll")
               /\ UNCHANGED <<outcome, last>>
    /\ UNCHANGED <<calls, session, quits, closeCalls, present>>

(* ------------------------------ caller -------------------------------- *)

\* The caller takes the result; the thread is free for its next call.
Return(t) ==
    /\ pc[t] = "done"
    /\ Goto(t, "idle")
    /\ frame' = [frame EXCEPT ![t] = NoFrame]
    /\ calls' = [calls EXCEPT ![t] = <<>>]
    /\ outcome' = [outcome EXCEPT ![t] = Pending]
    /\ last' = [last EXCEPT ![t] = Pending]
    /\ UNCHANGED <<session, quits, closeCalls, present>>

\* wait_for_element is running and its timeout has not elapsed.
Waiting(t) ==
    \/ pc[t] \in {"wait_poll", "wait_in_find"}
    \/ pc[t] = "wait_sleep" /\ frame[t].elapsed < frame[t].timeout

\* The page changes under the session.
PageChange ==
    /\ present' = ~present
    /\ frame' = [t \in Threads |->
                   IF Waiting(t) /\ present'
                      THEN [frame[t] EXCEPT !.appeared = TRUE]
                      ELSE frame[t]]
    /\ UNCHANGED <<pc, calls, outcome, last, session, quits, closeCalls>>

\* One step of thread t.
ThreadNext(t) ==
    \/ Construct(t)
    \/ InitImport(t)
    \/ InitAcquire(t)
    \/ InitSimular(t)
    \/ InitDriver(t)
    \/ InitImplicitWait(t)
    \/ InitExcept(t)
    \/ InitDone(t)
    \/ Navigate(t)
    \/ NavigateGetReturn(t)
    \/ NavigateSleep(t)
    \/ GetPageSource(t)
    \/ GetPageSourceReturn(t)
    \/ FindElement(t)
    \/ FindElements(t)
    \/ FindReturn(t)
    \/ Click(t)
    \/ ClickReturn(t)
    \/ ClickSleep(t)
    \/ TypeText(t)
    \/ TypeTextClearReturn(t)
    \/ TypeTextSendKeys(t)
    \/ TypeTextSendKeysReturn(t)
    \/ GetText(t)
    \/ GetTextReturn(t)
    \/ GetAttribute(t)
    \/ GetAttributeReturn(t)
    \/ Scroll(t)
    \/ ScrollReturn(t)
    \/ ScrollSleep(t)
    \/ WaitForElement(t)
    \/ WaitPoll(t)
    \/ WaitPollReturn(t)
    \/ WaitSleep(t)
    \/ Close(t)
    \/ CloseReturn(t)
    \/ Return(t)

Next ==
    \/ \E t \in Threads : ThreadNext(t)
    \/ PageChange

Spec == Init /\ [][Next]_vars

(* ------------------------------- claims ------------------------------- *)

Running(t, m) == frame[t].op = m
Ended(t, m) == Running(t, m) /\ pc[t] = "done"

\* C1: find_element and find_elements with `by` other than "css" and "xpath"
\* raise ValueError naming `by` and send the driver nothing; with "css" or
\* "xpath" they send exactly one lookup of the matching kind and end the way
\* the driver's answer does.
C1_FindValidates ==
    \A t \in Threads : \A m \in {"find_element", "find_elements"} :
        Running(t, m) =>
            IF frame[t].by = "css"
               THEN /\ calls[t] = <<Cmd(m \o "_by_css_selector", "sel", 0)>>
                    /\ pc[t] = "done" => outcome[t] = last[t]
            ELSE IF frame[t].by = "xpath"
               THEN /\ calls[t] = <<Cmd(m \o "_by_xpath", "sel", 0)>>
                    /\ pc[t] = "done" => outcome[t] = last[t]
            ELSE /\ calls[t] = <<>>
                 /\ pc[t] = "done"
                 /\ last[t] = Pending
                 /\ outcome[t] =
                      Raised(Exc("ValueError",
                                 "Unsupported selector type: " \o frame[t].by))

\* One thread's find_element was refused for by = "id" while the other's
\* find_elements by xpath returned what the driver found.
C1_Witness ==
    \E t, u \in Threads :
        /\ Ended(t, "find_element") /\ frame[t].by = "id"
        /\ outcome[t].kind = "raise"
        /\ Ended(u, "find_elements") /\ frame[u].by = "xpath"
        /\ outcome[u] = Returned(<<Elem>>)

InDriverCall ==
    {"nav_in_get", "src_in", "find_in", "click_in", "type_in_clear",
     "type_in_send", "text_in", "attr_in", "scroll_in", "wait_in_find",
     "close_in"}

InWithBlock == {"init_simular", "init_driver", "init_wait"}

InConstructor ==
    {"init_import", "init_acquire", "init_except", "init_done"} \cup InWithBlock

WaitPcs == {"wait_poll", "wait_in_find", "wait_sleep"}

C3_Returns ==
    \A t \in Threads :
        /\ Ended(t, "wait_for_element") /\ frame[t].byMethod # "" =>
              /\ outcome[t].kind = "return"
              /\ ~frame[t].appeared => outcome[t].val = Null
              /\ outcome[t].val # Null <=> last[t] = Returned(Elem)
              /\ outcome[t].val # Null => frame[t].appeared
              /\ outcome[t].val = Null =>
                    \/ last[t] = Raised(TimeoutExc)
                          /\ frame[t].elapsed = frame[t].timeout + 1
                          /\ Len(calls[t]) = frame[t].timeout + 1
                    \/ last[t].exc \in DriverErrors
        /\ pc[t] \in WaitPcs =>
              /\ frame[t].elapsed <= frame[t].timeout
              /\ ENABLED (WaitPoll(t) \/ WaitPollReturn(t) \/ WaitSleep(t))

\* The steps a wait_for_element standing at p has before it, at most.
WaitSteps(p, f) ==
    CASE p = "wait_poll" -> 3 * (f.timeout - f.elapsed) + 3
      [] p = "wait_in_find" -> 3 * (f.timeout - f.elapsed) + 2
      [] p = "wait_sleep" -> 3 * (f.timeout - f.elapsed) + 1
      [] OTHER -> 0

\* Every step of a running wait_for_element brings its end nearer.
C3_Progress ==
    \A t \in Threads :
        pc[t] \in WaitPcs =>
            \/ pc'[t] = pc[t] /\ frame'[t].elapsed = frame[t].elapsed
            \/ WaitSteps(pc'[t], frame'[t]) < WaitSteps(pc[t], frame[t])

C4_Claimed ==
    \A t \in Threads :
        Ended(t, "wait_for_element") => outcome[t].kind = "return"

\* C4, amended: every error raised inside the try, the poll helper's timeout
\* or a driver fault, is mapped to a None return, so the caller sees the same
\* outcome for both; the only raise is the ImportError of the imports, which
\* stand before the try, and it comes before any poll.
C4_WaitSwallows ==
    \A t \in Threads :
        Ended(t, "wait_for_element") =>
            /\ last[t].kind = "raise" => outcome[t] = Returned(Null)
            /\ calls[t] # <<>> => outcome[t].kind = "return"
            /\ outcome[t].kind = "raise" =>
                  /\ outcome[t] = Raised(SeleniumAbsent)
                  /\ calls[t] = <<>>
                  /\ last[t] = Pending

\* One wait ended in the timeout and the other in a driver fault, and both
\* returned None.
C4_Witness ==
    \E t, u \in Threads :
        /\ Ended(t, "wait_for_element") /\ last[t] = Raised(TimeoutExc)
        /\ Ended(u, "wait_for_element") /\ last[u].exc \in DriverErrors
        /\ outcome[t] = Returned(Null)
        /\ outcome[u] = Returned(Null)

\* C5: a navigate that returns has sent one get and then slept once, 2 s,
\* and a click that returns has sent one click and then slept once, 1 s;
\* before that each has sent a prefix of the same, the command first.
C5_CommandThenPause ==
    \A t \in Threads :
        /\ Running(t, "navigate") =>
              LET full == <<Cmd("get", "http://example.com", 0),
                            Cmd("sleep", "", 2 * 1000)>>
              IN  /\ calls[t] \in {SubSeq(full, 1, 1), full}
                  /\ pc[t] = "done" /\ outcome[t].kind = "return"
                        => calls[t] = full
                  /\ calls[t] = full => pc[t] = "done"
        /\ Running(t, "click") =>
              LET full == <<Cmd("click", Elem, 0), Cmd("sleep", "", 1 * 1000)>>
              IN  /\ calls[t] \in {SubSeq(full, 1, 1), full}
                  /\ pc[t] = "done" /\ outcome[t].kind = "return"
                        => calls[t] = full
                  /\ calls[t] = full => pc[t] = "done"

\* A navigate and a click have both returned.
C5_Witness ==
    \E t, u \in Threads :
        /\ Ended(t, "navigate") /\ outcome[t] = Returned(Null)
        /\ Ended(u, "click") /\ outcome[u] = Returned(Null)

\* C6: a constructor that found the dependency absent raises the "not
\* installed" ImportError and leaves no driver handle; any other failure of
\* the construction reaches the caller as it was raised.
C6_Claimed ==
    \A t \in Threads :
        Ended(t, "__init__") /\ outcome[t].kind = "raise" =>
            IF last[t] = Raised(SimularAbsent)
               THEN outcome[t] = Raised(NotInstalled) /\ driver = Null
               ELSE outcome[t] = last[t]

\* C7: every close() sends one quit, so the driver has received as many
\* quits as close() was called, and close() ends the way quit did.
C7_CloseForwards ==
    /\ quits = closeCalls
    /\ \A t \in Threads :
          Running(t, "close") =>
              /\ calls[t] = <<Cmd("quit", "", 0)>>
              /\ pc[t] = "done" => outcome[t] = last[t]

\* A second close() was forwarded and the driver's error reached the caller.
C7_Witness ==
    /\ quits = 2
    /\ closeCalls = 2
    /\ \E t \in Threads :
          /\ Ended(t, "close")
          /\ outcome[t].kind = "raise"
          /\ outcome[t].exc \in DriverErrors

\* C8: once construction has succeeded, self.driver is the handle Simular()
\* made, never None, whatever the threads call, close() included.
C8_OneDriverHandle ==
    status = "ready" =>
        /\ driver \in DriverHandles
        /\ driver = created
        /\ driver = browser

\* close() has returned twice and another operation is inside the driver.
C8_Witness ==
    /\ status = "ready"
    /\ quits = 2
    /\ \E t, u \in Threads :
          /\ Ended(t, "close")
          /\ pc[u] \in InDriverCall \ {"close_in"}
    /\ driver = created

Delegating ==
    {"navigate", "click", "type_text", "get_text", "get_attribute", "scroll"}

\* C9: in navigate, click, type_text, get_text, get_attribute and scroll, a
\* raise of the driver ends the operation at once with that same exception:
\* nothing is sent and no pause is made after it.
C9_ErrorsPropagate ==
    \A t \in Threads :
        frame[t].op \in Delegating /\ last[t].kind = "raise" =>
            /\ pc[t] = "done"
            /\ outcome[t] = last[t]
            /\ last[t].exc \in DriverErrors
            /\ \A i \in 1 .. Len(calls[t]) : calls[t][i].cmd # "sleep"
            /\ Running(t, "type_text") =>
                  calls[t] \in {<<Cmd("clear", Elem, 0)>>,
                                <<Cmd("clear", Elem, 0),
                                  Cmd("send_keys", "text", 0)>>}
            /\ ~Running(t, "type_text") => Len(calls[t]) = 1

\* A failed clear ended type_text and a failed get ended navigate.
C9_Witness ==
    \E t, u \in Threads :
        /\ Ended(t, "type_text") /\ calls[t] = <<Cmd("clear", Elem, 0)>>
        /\ outcome[t].kind = "raise"
        /\ Ended(u, "navigate") /\ outcome[u].kind = "raise"

\* C10, as claimed: wait_for_element polls XPath for every `by` other than
\* "css", and ends in a handle or None only.
C10_Claimed ==
    \A t \in Threads :
        Running(t, "wait_for_element") =>
            /\ \A i \in 1 .. Len(calls[t]) :
                  calls[t][i] =
                     Cmd("find_element",
                         IF frame[t].by = "css" THEN "css selector" ELSE "xpath",
                         0)
            /\ pc[t] = "done" =>
                  /\ outcome[t].kind = "return"
                  /\ outcome[t].val \in {Elem, Null}

\* C10, amended: wait_for_element polls XPath for every `by` other than
\* "css" and never raises ValueError; it ends in a handle or None, or, when
\* its own imports fail, in their ImportError.
C10_WaitNeverValidates ==
    \A t \in Threads :
        Running(t, "wait_for_element") =>
            /\ \A i \in 1 .. Len(calls[t]) :
                  calls[t][i] =
                     Cmd("find_element",
                         IF frame[t].by = "css" THEN "css selector" ELSE "xpath",
                         0)
            /\ pc[t] = "done" =>
                  /\ outcome[t].exc.type # "ValueError"
                  /\ \/ outcome[t] \in {Returned(Elem), Returned(Null)}
                     \/ outcome[t] = Raised(SeleniumAbsent)

\* A wait with by = "id" polled XPath and returned the handle.
C10_Witness ==
    \E t \in Threads :
        /\ Ended(t, "wait_for_element")
        /\ frame[t].by = "id"
        /\ calls[t] = <<Cmd("find_element", "xpath", 0)>>
        /\ outcome[t] = Returned(Elem)

====
